---- MODULE Spec2Model ----
(***************************************************************************)
(* Model of src/main.py: the FitActionExample task (construction, fit,     *)
(* predict, prune_state, state save/load) and its FittedMLModel, together  *)
(* with the storage backend and the process environment it runs against.   *)
(***************************************************************************)
EXTENDS Integers, Sequences, FiniteSets, TLC

\* ---------------------------------------------------------------- bounds
\* longest train_data.texts handed to fit
MaxLen == 2
\* longest data.texts handed to predict
MaxBatch == 2

\* the strings that occur as texts: one that never is a key, two that can be
TrainTexts == {"a", "0"}
QueryTexts == {"a", "0", "1"}
\* storage directories: values of MLP_STORAGE_DIR and of model_dir
Roots == {"r1", "r2"}
\* values of MLP_STORAGE_TYPE: the two backend names and an unknown one
StorageTypes == {"local", "s3", "ftp"}

\* ------------------------------------------------------------- sequences
RECURSIVE SeqsUpTo(_, _)
SeqsUpTo(S, n) ==
    IF n = 0 THEN {<<>>}
    ELSE LET shorter == SeqsUpTo(S, n - 1)
         IN shorter \cup {Append(s, x) : s \in {t \in shorter : Len(t) = n - 1}, x \in S}

Prefix(s, k) == [i \in 1..k |-> s[i]]

\* ------------------------------------------------------------------ str()
Digit == <<"0", "1", "2", "3", "4", "5", "6", "7", "8", "9">>

\* Python's str(idx) for idx >= 0: the decimal numeral
RECURSIVE Str(_)
Str(n) == IF n < 10 THEN Digit[n + 1] ELSE Str(n \div 10) \o Digit[(n % 10) + 1]

\* ------------------------------------------------------------------ dict
\* a Python dict: the <<key, value>> items in insertion order, keys unique
EmptyDict == <<>>

DictKeys(d) == {d[i][1] : i \in 1..Len(d)}

DictHas(d, k) == \E i \in 1..Len(d) : d[i][1] = k

DictGet(d, k) == d[CHOOSE i \in 1..Len(d) : d[i][1] = k][2]

\* d[k] = v: overwrite in place when k is present, else insert at the end
DictSet(d, k, v) ==
    IF DictHas(d, k)
    THEN [i \in 1..Len(d) |-> IF d[i][1] = k THEN <<k, v>> ELSE d[i]]
    ELSE Append(d, <<k, v>>)

\* the key -> value mapping a dict stands for
AsMapping(d) == [k \in DictKeys(d) |-> DictGet(d, k)]

\* --------------------------------------------------------- FittedMLModel
\* FittedMLModel(data): the object holds the dict in its field data
FittedMLModel(data) == [data |-> data]

has_data(model, index) == DictHas(model.data, index)

Placeholder == "No such sentence in the original dataset"

model_predict(model, index) ==
    IF DictHas(model.data, index) THEN DictGet(model.data, index) ELSE Placeholder

\* _prepare_model_data: data[str(idx)] = text for idx, text in enumerate(texts)
RECURSIVE PrepareLoop(_, _, _)
PrepareLoop(data, texts, idx) ==
    IF idx >= Len(texts) THEN data
    ELSE PrepareLoop(DictSet(data, Str(idx), texts[idx + 1]), texts, idx + 1)

\* the keys counted from 1 (enumerate(texts, 1))
_prepare_model_data_from_one(texts) == [i \in 1..Len(texts) |-> <<Str(i), texts[i]>>]

\* the dict keyed by the text itself (data[text] = text)
RECURSIVE PrepareByTextLoop(_, _, _)
PrepareByTextLoop(data, texts, idx) ==
    IF idx >= Len(texts) THEN data
    ELSE PrepareByTextLoop(DictSet(data, texts[idx + 1], texts[idx + 1]), texts, idx + 1)

_prepare_model_data_by_text(texts) == PrepareByTextLoop(EmptyDict, texts, 0)

_prepare_model_data(texts) == PrepareLoop(EmptyDict, texts, 0)

\* ------------------------------------------------------------ State Codec
\* pickle.dump writes a protocol marker, the items of the object's dict and
\* a final STOP; a stream is a sequence of such tokens
ProtoToken == <<"PROTO", "4">>
StopToken == <<"STOP", ".">>

\* pickle.dump(self.model, fout): the complete stream of a model
Encode(m) == <<ProtoToken>> \o m.data \o <<StopToken>>

\* pickle.loads accepts exactly the complete streams
Decodable(bytes) ==
    /\ Len(bytes) >= 2
    /\ bytes[1] = ProtoToken
    /\ bytes[Len(bytes)] = StopToken

\* a decoder that takes the first item for part of the header
Decode_SkipFirst(bytes) == FittedMLModel([i \in 1..(Len(bytes) - 3) |-> bytes[i + 2]])

\* pickle.loads(fin.read()) on a complete stream
Decode(bytes) == FittedMLModel([i \in 1..(Len(bytes) - 2) |-> bytes[i + 1]])

\* --------------------------------------------------------- Storage Backend
\* what is stored at model_path under one storage root
Absent == [present |-> FALSE, bytes |-> <<>>]
Stored(bytes) == [present |-> TRUE, bytes |-> bytes]

model_path == "model.pkl"

BackendNames == {"local", "s3"}
NoStorage == [kind |-> "none", root |-> ""]
Locations == [kind : BackendNames, root : Roots]

\* storage.open(key, 'rb'): 'NotFound' for a missing blob, 'IOError' when the
\* backend cannot be reached, else the bytes of the blob
StorageOpenRead(store, st, fault) ==
    IF fault = "io" THEN [raised |-> "IOError", bytes |-> <<>>]
    ELSE IF ~store[st].present THEN [raised |-> "KeyError", bytes |-> <<>>]
    ELSE [raised |-> "none", bytes |-> store[st].bytes]

\* storage.open(key, 'wb'): creates or truncates the blob
StorageOpenWrite(store, st) == [store EXCEPT ![st] = Stored(<<>>)]

\* the stream's writes followed by its close: the first n tokens reach the blob
StorageWrite(store, st, bytes, n) == [store EXCEPT ![st] = Stored(Prefix(bytes, n))]

\* storage.remove(key)
StorageRemove(store, st) == [store EXCEPT ![st] = Absent]

\* ------------------------------------------------------------ environment
\* get_env('MLP_STORAGE_TYPE'), get_env('MLP_STORAGE_DIR')
get_env(e, name) == e[name]

\* _get_storage whose else branch falls back to the local backend
_get_storage_fallback(e, model_dir) ==
    LET storage_type == get_env(e, "MLP_STORAGE_TYPE")
        storage_dir == IF model_dir = "" THEN get_env(e, "MLP_STORAGE_DIR") ELSE model_dir
    IN IF storage_type = "s3"
       THEN [raised |-> "none", storage |-> [kind |-> "s3", root |-> storage_dir]]
       ELSE [raised |-> "none", storage |-> [kind |-> "local", root |-> storage_dir]]

\* _get_storage(model_dir): the backend named by MLP_STORAGE_TYPE rooted at
\* model_dir, or at MLP_STORAGE_DIR when model_dir is empty
_get_storage(e, model_dir) ==
    LET storage_type == get_env(e, "MLP_STORAGE_TYPE")
        storage_dir == IF model_dir = "" THEN get_env(e, "MLP_STORAGE_DIR") ELSE model_dir
    IN IF storage_type = "local"
       THEN [raised |-> "none", storage |-> [kind |-> "local", root |-> storage_dir]]
       ELSE IF storage_type = "s3"
       THEN [raised |-> "none", storage |-> [kind |-> "s3", root |-> storage_dir]]
       ELSE [raised |-> "ValueError", storage |-> NoStorage]

\* ------------------------------------------------------------------ state
VARIABLES
    env,              \* the process environment: MLP_STORAGE_TYPE, MLP_STORAGE_DIR
    blobs,            \* the blob at model_path under every storage location
    alive,            \* a constructed FitActionExample exists
    model,            \* self.model
    storage,          \* self.storage
    is_fitted_model,  \* self.is_fitted_model
    last              \* the last operation: its arguments, I/O and outcome

vars == <<env, blobs, alive, model, storage, is_fitted_model, last>>

\* is_fitted property
is_fitted == is_fitted_model

\* the record of an operation
\* raised: the exception that left the operation ("none": it returned);
\* caught: the exception the operation caught and logged ("none": nothing)
Op(name, texts, model_dir, raised, out, io, caught, msg) ==
    [op |-> name, texts |-> texts, model_dir |-> model_dir, raised |-> raised,
     out |-> out, io |-> io, caught |-> caught, msg |-> msg]

\* one I/O call issued to a backend
Io(call, st) == [call |-> call, at |-> st]

NoKeyMessage == "No such id here, try 0 or 1"

\* ----------------------------------------------------------- _load_state
\* _load_state that sets is_fitted_model before it opens the blob
_load_state_FlagFirst(store, st, m, fitted, fault) ==
    LET rd == StorageOpenRead(store, st, fault)
    IN IF rd.raised # "none"
       THEN [raised |-> rd.raised, model |-> m, is_fitted_model |-> TRUE]
       ELSE IF ~Decodable(rd.bytes)
       THEN [raised |-> "UnpicklingError", model |-> m, is_fitted_model |-> TRUE]
       ELSE [raised |-> "none", model |-> Decode(rd.bytes), is_fitted_model |-> TRUE]

\* _load_state that never sets is_fitted_model
_load_state_NoFlag(store, st, m, fitted, fault) ==
    LET rd == StorageOpenRead(store, st, fault)
    IN IF rd.raised # "none"
       THEN [raised |-> rd.raised, model |-> m, is_fitted_model |-> fitted]
       ELSE IF ~Decodable(rd.bytes)
       THEN [raised |-> "UnpicklingError", model |-> m, is_fitted_model |-> fitted]
       ELSE [raised |-> "none", model |-> Decode(rd.bytes), is_fitted_model |-> fitted]

\* with self.storage.open(self.model_path, 'rb') as fin:
\*     self.model = pickle.loads(fin.read())
\* self.is_fitted_model = True
_load_state(store, st, m, fitted, fault) ==
    LET rd == StorageOpenRead(store, st, fault)
    IN IF rd.raised # "none"
       THEN [raised |-> rd.raised, model |-> m, is_fitted_model |-> fitted]
       ELSE IF ~Decodable(rd.bytes)
       THEN [raised |-> "UnpicklingError", model |-> m, is_fitted_model |-> fitted]
       ELSE [raised |-> "none", model |-> Decode(rd.bytes), is_fitted_model |-> TRUE]

\* ----------------------------------------------------------- _save_state
\* with self.storage.open(self.model_path, 'wb') as fout:
\*     pickle.dump(self.model, fout)
\* fault "open": the open fails; fault "write": the dump fails after n tokens
_save_state(store, st, m, fault, n) ==
    IF fault = "open"
    THEN [raised |-> "IOError", store |-> store]
    ELSE IF fault = "write"
    THEN [raised |-> "IOError",
          store |-> StorageWrite(StorageOpenWrite(store, st), st, Encode(m), n)]
    ELSE [raised |-> "none",
          store |-> StorageWrite(StorageOpenWrite(store, st), st, Encode(m), Len(Encode(m)))]

\* -------------------------------------------------------------- __init__
\* __init__ without the except KeyError of lines 31-32
ConstructResult_NoExcept(e, store, fault) ==
    LET gs == _get_storage(e, "")
        ld == _load_state(store, gs.storage, FittedMLModel(EmptyDict), FALSE, fault)
    IN IF gs.raised # "none"
       THEN [raised |-> gs.raised, model |-> FittedMLModel(EmptyDict),
             storage |-> NoStorage, is_fitted_model |-> FALSE,
             io |-> <<>>, caught |-> "none"]
       ELSE IF ld.raised # "none"
       THEN [raised |-> ld.raised, model |-> FittedMLModel(EmptyDict),
             storage |-> NoStorage, is_fitted_model |-> FALSE,
             io |-> <<Io("open_rb", gs.storage)>>, caught |-> "none"]
       ELSE [raised |-> "none", model |-> ld.model,
             storage |-> gs.storage, is_fitted_model |-> ld.is_fitted_model,
             io |-> <<Io("open_rb", gs.storage)>>, caught |-> "none"]

\* __init__ with except Exception in place of except KeyError
ConstructResult_CatchAll(e, store, fault) ==
    LET gs == _get_storage(e, "")
        ld == _load_state(store, gs.storage, FittedMLModel(EmptyDict), FALSE, fault)
    IN IF gs.raised # "none"
       THEN [raised |-> gs.raised, model |-> FittedMLModel(EmptyDict),
             storage |-> NoStorage, is_fitted_model |-> FALSE,
             io |-> <<>>, caught |-> "none"]
       ELSE [raised |-> "none", model |-> ld.model,
             storage |-> gs.storage, is_fitted_model |-> ld.is_fitted_model,
             io |-> <<Io("open_rb", gs.storage)>>, caught |-> ld.raised]

\* the fields of the object and the outcome of FitActionExample(config)
ConstructResult(e, store, fault) ==
    LET gs == _get_storage(e, "")
        ld == _load_state(store, gs.storage, FittedMLModel(EmptyDict), FALSE, fault)
    IN IF gs.raised # "none"
       THEN [raised |-> gs.raised, model |-> FittedMLModel(EmptyDict),
             storage |-> NoStorage, is_fitted_model |-> FALSE,
             io |-> <<>>, caught |-> "none"]
       ELSE IF ld.raised = "KeyError"
       THEN [raised |-> "none", model |-> ld.model,
             storage |-> gs.storage, is_fitted_model |-> ld.is_fitted_model,
             io |-> <<Io("open_rb", gs.storage)>>, caught |-> "KeyError"]
       ELSE IF ld.raised # "none"
       THEN [raised |-> ld.raised, model |-> FittedMLModel(EmptyDict),
             storage |-> NoStorage, is_fitted_model |-> FALSE,
             io |-> <<Io("open_rb", gs.storage)>>, caught |-> "none"]
       ELSE [raised |-> "none", model |-> ld.model,
             storage |-> gs.storage, is_fitted_model |-> ld.is_fitted_model,
             io |-> <<Io("open_rb", gs.storage)>>, caught |-> "none"]

\* a process start: FitActionExample(config); an exception out of __init__
\* leaves no object
Construct(fault) ==
    LET r == ConstructResult(env, blobs, fault)
    IN /\ alive' = (r.raised = "none")
       /\ model' = r.model
       /\ storage' = r.storage
       /\ is_fitted_model' = r.is_fitted_model
       /\ last' = Op("construct", <<>>, "", r.raised, <<>>, r.io, r.caught, "")
       /\ UNCHANGED <<env, blobs>>

\* ------------------------------------------------------------------- fit
\* train_data is a TextsCollection, or None (train_data.texts then raises)
TextsCollection(texts) == [none |-> FALSE, texts |-> texts]
None == [none |-> TRUE, texts |-> <<>>]

\* the fields of the object, the blobs and the outcome after a call of fit
FitOutcome(raised, m, st, fitted, store, io, caught) ==
    [raised |-> raised, model |-> m, storage |-> st, is_fitted_model |-> fitted,
     store |-> store, io |-> io, caught |-> caught]

\* fit without its try/except: a failure of the build or of the save leaves it
FitResult_NoCatch(e, store, m, st, fitted, train_data, model_dir, fault, n) ==
    LET gs == _get_storage(e, model_dir)
        built == FittedMLModel(_prepare_model_data(train_data.texts))
        sv == _save_state(store, gs.storage, built, fault, n)
        wb == <<Io("open_wb", gs.storage)>>
    IN IF gs.raised # "none"
       THEN FitOutcome(gs.raised, m, st, fitted, store, <<>>, "none")
       ELSE IF train_data.none
       THEN FitOutcome("AttributeError", m, gs.storage, fitted, store, <<>>, "none")
       ELSE IF sv.raised # "none"
       THEN FitOutcome(sv.raised, built, gs.storage, fitted, sv.store, wb, "none")
       ELSE FitOutcome("none", built, gs.storage, TRUE, sv.store, wb, "none")

\* fit that sets is_fitted_model before _save_state
FitResult_FlagFirst(e, store, m, st, fitted, train_data, model_dir, fault, n) ==
    LET gs == _get_storage(e, model_dir)
        built == FittedMLModel(_prepare_model_data(train_data.texts))
        sv == _save_state(store, gs.storage, built, fault, n)
        wb == <<Io("open_wb", gs.storage)>>
    IN IF gs.raised # "none"
       THEN FitOutcome(gs.raised, m, st, fitted, store, <<>>, "none")
       ELSE IF train_data.none
       THEN FitOutcome("none", m, gs.storage, fitted, store, <<>>, "AttributeError")
       ELSE IF sv.raised # "none"
       THEN FitOutcome("none", built, gs.storage, TRUE, sv.store, wb, sv.raised)
       ELSE FitOutcome("none", built, gs.storage, TRUE, sv.store, wb, "none")

\* fit that keeps the new model in a local and assigns self.model after the save
FitResult_AssignLast(e, store, m, st, fitted, train_data, model_dir, fault, n) ==
    LET gs == _get_storage(e, model_dir)
        built == FittedMLModel(_prepare_model_data(train_data.texts))
        sv == _save_state(store, gs.storage, built, fault, n)
        wb == <<Io("open_wb", gs.storage)>>
    IN IF gs.raised # "none"
       THEN FitOutcome(gs.raised, m, st, fitted, store, <<>>, "none")
       ELSE IF train_data.none
       THEN FitOutcome("none", m, gs.storage, fitted, store, <<>>, "AttributeError")
       ELSE IF sv.raised # "none"
       THEN FitOutcome("none", m, gs.storage, fitted, sv.store, wb, sv.raised)
       ELSE FitOutcome("none", built, gs.storage, TRUE, sv.store, wb, "none")

\* fit that calls _save_state before it assigns self.model
FitResult_SaveFirst(e, store, m, st, fitted, train_data, model_dir, fault, n) ==
    LET gs == _get_storage(e, model_dir)
        built == FittedMLModel(_prepare_model_data(train_data.texts))
        sv == _save_state(store, gs.storage, m, fault, n)
        wb == <<Io("open_wb", gs.storage)>>
    IN IF gs.raised # "none"
       THEN FitOutcome(gs.raised, m, st, fitted, store, <<>>, "none")
       ELSE IF train_data.none
       THEN FitOutcome("none", m, gs.storage, fitted, store, <<>>, "AttributeError")
       ELSE IF sv.raised # "none"
       THEN FitOutcome("none", m, gs.storage, fitted, sv.store, wb, sv.raised)
       ELSE FitOutcome("none", built, gs.storage, TRUE, sv.store, wb, "none")

\* fit that keeps the backend it has when model_dir is empty
FitResult_Sticky(e, store, m, st, fitted, train_data, model_dir, fault, n) ==
    LET gs0 == _get_storage(e, model_dir)
        gs == IF gs0.raised = "none" /\ model_dir = "" /\ st # NoStorage
              THEN [gs0 EXCEPT !.storage = st] ELSE gs0
        built == FittedMLModel(_prepare_model_data(train_data.texts))
        sv == _save_state(store, gs.storage, built, fault, n)
        wb == <<Io("open_wb", gs.storage)>>
    IN IF gs.raised # "none"
       THEN FitOutcome(gs.raised, m, st, fitted, store, <<>>, "none")
       ELSE IF train_data.none
       THEN FitOutcome("none", m, gs.storage, fitted, store, <<>>, "AttributeError")
       ELSE IF sv.raised # "none"
       THEN FitOutcome("none", built, gs.storage, fitted, sv.store, wb, sv.raised)
       ELSE FitOutcome("none", built, gs.storage, TRUE, sv.store, wb, "none")

\* fit that fills the dict of the model it has instead of a new dict()
FitResult_Update(e, store, m, st, fitted, train_data, model_dir, fault, n) ==
    LET gs == _get_storage(e, model_dir)
        built == FittedMLModel(PrepareLoop(m.data, train_data.texts, 0))
        sv == _save_state(store, gs.storage, built, fault, n)
        wb == <<Io("open_wb", gs.storage)>>
    IN IF gs.raised # "none"
       THEN FitOutcome(gs.raised, m, st, fitted, store, <<>>, "none")
       ELSE IF train_data.none
       THEN FitOutcome("none", m, gs.storage, fitted, store, <<>>, "AttributeError")
       ELSE IF sv.raised # "none"
       THEN FitOutcome("none", built, gs.storage, fitted, sv.store, wb, sv.raised)
       ELSE FitOutcome("none", built, gs.storage, TRUE, sv.store, wb, "none")

\* fit(train_data, ..., model_dir, ...):
\*     self.storage = self._get_storage(model_dir)
\*     try: self.model = FittedMLModel(self._prepare_model_data(train_data.texts))
\*          self._save_state(); self.is_fitted_model = True
\*     except Exception as e: LOGGER.error(...)
FitResult(e, store, m, st, fitted, train_data, model_dir, fault, n) ==
    LET gs == _get_storage(e, model_dir)
        built == FittedMLModel(_prepare_model_data(train_data.texts))
        sv == _save_state(store, gs.storage, built, fault, n)
        wb == <<Io("open_wb", gs.storage)>>
    IN IF gs.raised # "none"
       THEN FitOutcome(gs.raised, m, st, fitted, store, <<>>, "none")
       ELSE IF train_data.none
       THEN FitOutcome("none", m, gs.storage, fitted, store, <<>>, "AttributeError")
       ELSE IF sv.raised # "none"
       THEN FitOutcome("none", built, gs.storage, fitted, sv.store, wb, sv.raised)
       ELSE FitOutcome("none", built, gs.storage, TRUE, sv.store, wb, "none")

\* the dump fails after n tokens, n short of the complete stream
Fit(train_data, model_dir, fault, n) ==
    /\ alive
    /\ fault = "write" => (~train_data.none /\ n < Len(train_data.texts) + 2)
    /\ fault # "none" => ~train_data.none
    /\ fault # "write" => n = 0
    /\ LET r == FitResult(env, blobs, model, storage, is_fitted_model,
                          train_data, model_dir, fault, n)
       IN /\ model' = r.model
          /\ storage' = r.storage
          /\ is_fitted_model' = r.is_fitted_model
          /\ blobs' = r.store
          /\ last' = Op("fit", train_data.texts, model_dir, r.raised, <<>>, r.io, r.caught, "")
    /\ UNCHANGED <<env, alive>>

\* --------------------------------------------------------------- predict
\* Item(value=...), Items(items=[...]), ItemsCollection(items_list=[...])
Item(value) == value
Items(items) == items

\* str() of a value that is a string already
StrOfText(v) == v

\* the loop of predict over data.texts[i..]; result_list is dropped on raise
RECURSIVE PredictLoop(_, _, _, _)
PredictLoop(m, texts, i, result_list) ==
    IF i > Len(texts) THEN [raised |-> "none", out |-> result_list, msg |-> ""]
    ELSE IF ~has_data(m, texts[i])
    THEN [raised |-> "ValueError", out |-> <<>>, msg |-> NoKeyMessage]
    ELSE LET predict_result == model_predict(m, texts[i])
             item_list == <<Item(StrOfText(predict_result))>>
         IN PredictLoop(m, texts, i + 1, Append(result_list, Items(item_list)))

\* predict that skips an absent text (continue) where the code raises
PredictResult_Skip(m, texts) ==
    PredictLoop(m, SelectSeq(texts, LAMBDA t : has_data(m, t)), 1, <<>>)

\* predict whose error message is the absent text (f'No such id: {text}')
PredictResult_CiteText(m, texts) ==
    LET r == PredictLoop(m, texts, 1, <<>>)
        absent == SelectSeq(texts, LAMBDA t : ~has_data(m, t))
    IN IF r.raised = "none" THEN r ELSE [r EXCEPT !.msg = absent[1]]

PredictResult(m, texts) == PredictLoop(m, texts, 1, <<>>)

Predict(texts) ==
    /\ alive
    /\ LET r == PredictResult(model, texts)
       IN last' = Op("predict", texts, "", r.raised, r.out, <<>>, "none", r.msg)
    /\ UNCHANGED <<env, blobs, alive, model, storage, is_fitted_model>>

\* ----------------------------------------------------------- prune_state
\* prune_state that ignores model_dir and always removes under MLP_STORAGE_DIR
PruneResult_DefaultRoot(e, store, model_dir, fault) ==
    LET gs == _get_storage(e, "")
    IN IF gs.raised # "none"
       THEN [raised |-> gs.raised, store |-> store, io |-> <<>>]
       ELSE IF fault = "io"
       THEN [raised |-> "IOError", store |-> store, io |-> <<Io("remove", gs.storage)>>]
       ELSE IF ~store[gs.storage].present
       THEN [raised |-> "KeyError", store |-> store, io |-> <<Io("remove", gs.storage)>>]
       ELSE [raised |-> "none", store |-> StorageRemove(store, gs.storage),
             io |-> <<Io("remove", gs.storage)>>]

\* prune_state that returns quietly when the blob is not there
PruneResult_Swallow(e, store, model_dir, fault) ==
    LET remove_path == IF model_dir # "" THEN model_dir ELSE get_env(e, "MLP_STORAGE_DIR")
        gs == _get_storage(e, remove_path)
    IN IF gs.raised # "none"
       THEN [raised |-> gs.raised, store |-> store, io |-> <<>>]
       ELSE IF fault = "io"
       THEN [raised |-> "IOError", store |-> store, io |-> <<Io("remove", gs.storage)>>]
       ELSE [raised |-> "none", store |-> StorageRemove(store, gs.storage),
             io |-> <<Io("remove", gs.storage)>>]

\* prune_state(model_dir):
\*     remove_path = model_dir if len(model_dir) > 0 else get_env('MLP_STORAGE_DIR')
\*     storage = self._get_storage(remove_path); storage.remove(self.model_path)
PruneResult(e, store, model_dir, fault) ==
    LET remove_path == IF model_dir # "" THEN model_dir ELSE get_env(e, "MLP_STORAGE_DIR")
        gs == _get_storage(e, remove_path)
    IN IF gs.raised # "none"
       THEN [raised |-> gs.raised, store |-> store, io |-> <<>>]
       ELSE IF fault = "io"
       THEN [raised |-> "IOError", store |-> store, io |-> <<Io("remove", gs.storage)>>]
       ELSE IF ~store[gs.storage].present
       THEN [raised |-> "KeyError", store |-> store, io |-> <<Io("remove", gs.storage)>>]
       ELSE [raised |-> "none", store |-> StorageRemove(store, gs.storage),
             io |-> <<Io("remove", gs.storage)>>]

\* prune_state that also drops the model of the object once the blob is gone
Prune_ResetObject(model_dir, fault) ==
    /\ alive
    /\ LET r == PruneResult(env, blobs, model_dir, fault)
       IN /\ blobs' = r.store
          /\ model' = IF r.raised = "none" THEN FittedMLModel(EmptyDict) ELSE model
          /\ is_fitted_model' = IF r.raised = "none" THEN FALSE ELSE is_fitted_model
          /\ last' = Op("prune", <<>>, model_dir, r.raised, <<>>, r.io, "none", "")
    /\ UNCHANGED <<env, alive, storage>>

Prune(model_dir, fault) ==
    /\ alive
    /\ LET r == PruneResult(env, blobs, model_dir, fault)
       IN /\ blobs' = r.store
          /\ last' = Op("prune", <<>>, model_dir, r.raised, <<>>, r.io, "none", "")
    /\ UNCHANGED <<env, alive, model, storage, is_fitted_model>>

\* ------------------------------------------------ the environment changes
\* the deployment is re-pointed: another discriminator or another directory.
\* It moves to the other backend only while that backend holds no blob left
\* behind by an earlier configuration.
SetEnv(storage_type, storage_dir) ==
    /\ env' = [MLP_STORAGE_TYPE |-> storage_type, MLP_STORAGE_DIR |-> storage_dir]
    /\ env' # env
    /\ \A st \in Locations : blobs[st].present => storage_type \in {st.kind, "ftp"}
    /\ last' = Op("setenv", <<>>, "", "none", <<>>, <<>>, "none", "")
    /\ UNCHANGED <<blobs, alive, model, storage, is_fitted_model>>

\* -------------------------------------------------------- specifications
ModelDirs == {""} \cup Roots
ReadFaults == {"none", "io"}
WriteFaults == {"none", "open", "write"}

Init ==
    /\ env \in [MLP_STORAGE_TYPE : StorageTypes, MLP_STORAGE_DIR : Roots]
    /\ blobs = [st \in Locations |-> Absent]
    /\ alive = FALSE
    /\ model = FittedMLModel(EmptyDict)
    /\ storage = NoStorage
    /\ is_fitted_model = FALSE
    /\ last = Op("none", <<>>, "", "none", <<>>, <<>>, "none", "")

\* The life cycle against every environment and storage root, with a few
\* training sets (no texts, one text, a train_data of None) and batches.
LifecycleTrain == {None, TextsCollection(<<>>), TextsCollection(<<"a">>)}
LifecycleQueries == {<<"0">>, <<"a">>}

Next ==
    \/ \E fault \in ReadFaults : Construct(fault)
    \/ \E td \in LifecycleTrain, d \in ModelDirs, fault \in WriteFaults, n \in 0..2 :
          Fit(td, d, fault, n)
    \/ \E texts \in LifecycleQueries : Predict(texts)
    \/ \E d \in ModelDirs, fault \in ReadFaults : Prune(d, fault)
    \/ \E t \in StorageTypes, d \in Roots : SetEnv(t, d)

Spec == Init /\ [][Next]_vars

\* The data path against one storage root: every training set up to MaxLen
\* texts and every batch up to MaxBatch texts; a failing dump leaves the
\* truncated blob.
TrainSeqs == SeqsUpTo(TrainTexts, MaxLen)
QuerySeqs == SeqsUpTo(QueryTexts, MaxBatch)
TrainData == {TextsCollection(t) : t \in TrainSeqs} \cup {None}

InitData ==
    /\ Init
    /\ env = [MLP_STORAGE_TYPE |-> "local", MLP_STORAGE_DIR |-> "r1"]

NextData ==
    \/ \E fault \in ReadFaults : Construct(fault)
    \/ \E td \in TrainData, fault \in WriteFaults :
          Fit(td, "", fault, 0)
    \/ \E texts \in QuerySeqs : Predict(texts)
    \/ \E fault \in ReadFaults : Prune("", fault)

SpecData == InitData /\ [][NextData]_vars

\* ------------------------------------------------------------ properties
\* the last operation was a fit that built and persisted its model
FitSucceeded == last.op = "fit" /\ last.raised = "none" /\ last.caught = "none"

\* the last operation was a fit that did not build and persist a model
FitFailed == last.op = "fit" /\ ~FitSucceeded

\* predict returned exactly the groups out
Returned(r, out) == r.raised = "none" /\ r.out = out

\* C1 as stated: after a successful fit(T) of a non-empty T, is_fitted is
\* true and predict([T[i]]) returns one group holding T[i], for every i.
C1_PredictByText ==
    (FitSucceeded /\ last.texts # <<>>) =>
        /\ is_fitted
        /\ \A i \in 1..Len(last.texts) :
              Returned(PredictResult(model, <<last.texts[i]>>), <<<<last.texts[i]>>>>)

\* C1 amended: after a successful fit(T) of a non-empty T, is_fitted is true
\* and predict([str(i)]) returns one group holding T[i], for every 0-based
\* index i of T: the model is queried by position, not by text.
C1_PredictByIndex ==
    (FitSucceeded /\ last.texts # <<>>) =>
        /\ is_fitted
        /\ \A i \in 0..(Len(last.texts) - 1) :
              Returned(PredictResult(model, <<Str(i)>>), <<<<last.texts[i + 1]>>>>)

C1_Witness ==
    /\ FitSucceeded
    /\ Len(last.texts) = MaxLen
    /\ last.texts[1] = "a"
    /\ PredictResult(model, <<"a">>).raised = "ValueError"

\* C2 as stated: fit never raises to its caller, whatever the input, the
\* model_dir and the failure (unknown discriminator, build, write).
C2_FitNeverRaises == last.op = "fit" => last.raised = "none"

\* C2 amended: fit raises to its caller exactly when MLP_STORAGE_TYPE names
\* no backend (the ValueError of _get_storage, raised before the try); every
\* failure of the build or of the write is caught and logged.
C2_FitRaisesOnlyOnDiscriminator ==
    last.op = "fit" =>
        /\ (last.raised = "none") <=> (env.MLP_STORAGE_TYPE \in BackendNames)
        /\ last.raised \in {"none", "ValueError"}

C2_Witness ==
    /\ last.op = "fit"
    /\ last.raised = "none"
    /\ last.caught = "IOError"
    /\ last.model_dir = "r2"

\* C3: a fit that fails leaves is_fitted_model as it was, and a fit turns the
\* flag on only when the blob of its model has been written completely.
C3_FailedFitKeepsFlag ==
    [][ /\ FitFailed' => is_fitted_model' = is_fitted_model
        /\ (last'.op = "fit" /\ is_fitted_model' /\ ~is_fitted_model) =>
              /\ FitSucceeded'
              /\ blobs'[storage'] = Stored(Encode(model')) ]_vars

C3_Witness ==
    /\ FitFailed
    /\ last.caught = "IOError"
    /\ is_fitted_model
    /\ blobs[storage] # Stored(Encode(model))

\* C4 as stated: a fit whose persistence step fails leaves the blob of its
\* storage root absent or a complete encoding (the one from before the call
\* or the one of the new model), and no construction finds a partial blob.
C4_FailedFitLeavesCompleteBlob ==
    [][ /\ (FitFailed' /\ last'.caught = "IOError") =>
              \/ ~blobs'[storage'].present
              \/ Decodable(blobs'[storage'].bytes)
        /\ last'.op = "construct" => last'.raised # "UnpicklingError" ]_vars

\* C5: a fit whose build fails leaves self.model as it was; a fit whose build
\* succeeds and whose save fails holds the new model in self.model and leaves
\* is_fitted_model as it was.
C5_ModelReplacedOnceBuilt ==
    [][ last'.op = "fit" =>
          /\ last'.caught = "AttributeError" => model' = model
          /\ last'.caught = "IOError" =>
                /\ model' = FittedMLModel(_prepare_model_data(last'.texts))
                /\ is_fitted_model' = is_fitted_model ]_vars

C5_Witness ==
    /\ FitFailed
    /\ last.caught = "IOError"
    /\ ~is_fitted_model
    /\ model.data # <<>>
    /\ blobs[storage] # Stored(Encode(model))

\* C6: predict on a batch whose texts all are keys of the model returns one
\* group per text, in input order, each holding the value of that key; on a
\* batch with an absent text it raises and returns nothing.
C6_PredictAllOrNothing ==
    last.op = "predict" =>
        IF \A i \in 1..Len(last.texts) : last.texts[i] \in DictKeys(model.data)
        THEN /\ last.raised = "none"
             /\ Len(last.out) = Len(last.texts)
             /\ \A i \in 1..Len(last.texts) :
                   last.out[i] = <<AsMapping(model.data)[last.texts[i]]>>
        ELSE /\ last.raised = "ValueError"
             /\ last.out = <<>>

C6_Witness ==
    /\ last.op = "predict"
    /\ last.texts = <<"1", "0">>
    /\ last.raised = "none"
    /\ last.out[1] # last.out[2]

\* C7: a construction that finds no blob under its storage root (the backend
\* being reachable) does not raise: the KeyError of the load is caught and
\* logged, and the object starts unfitted with the empty model.
C7_MissingBlobConstructs ==
    ( /\ last.op = "construct"
      /\ env.MLP_STORAGE_TYPE \in BackendNames
      /\ ~blobs[_get_storage(env, "").storage].present
      /\ last.raised # "IOError" ) =>
        /\ last.raised = "none"
        /\ last.caught = "KeyError"
        /\ alive
        /\ ~is_fitted
        /\ model = FittedMLModel(EmptyDict)

C7_Witness ==
    /\ last.op = "construct"
    /\ last.caught = "KeyError"
    /\ alive
    /\ \E st \in Locations : blobs[st].present

\* every environment a process can be started in
Envs == [MLP_STORAGE_TYPE : StorageTypes, MLP_STORAGE_DIR : Roots]

\* the location the last prune_state addressed
PrunedLocation ==
    [kind |-> env.MLP_STORAGE_TYPE,
     root |-> IF last.model_dir # "" THEN last.model_dir ELSE env.MLP_STORAGE_DIR]

\* C8: right after a successful prune of a storage root, a construction
\* against that root yields an object with is_fitted = false.
C8_PruneThenConstructUnfitted ==
    (last.op = "prune" /\ last.raised = "none") =>
        \A e \in Envs :
            (_get_storage(e, "").storage = PrunedLocation) =>
                /\ ConstructResult(e, blobs, "none").raised = "none"
                /\ \A fault \in ReadFaults :
                      ~ConstructResult(e, blobs, fault).is_fitted_model

C8_Witness ==
    /\ last.op = "prune"
    /\ last.raised = "none"
    /\ last.model_dir = "r2"
    /\ env.MLP_STORAGE_DIR = "r1"
    /\ is_fitted_model
    /\ blobs[[kind |-> env.MLP_STORAGE_TYPE, root |-> "r1"]].present

\* C9: a construction, fit or prune_state under a discriminator that names no
\* backend raises the ValueError of _get_storage and has issued no open and
\* no remove.
C9_UnknownDiscriminatorNoIO ==
    (last.op \in {"construct", "fit", "prune"} /\ env.MLP_STORAGE_TYPE \notin BackendNames) =>
        /\ last.raised = "ValueError"
        /\ last.io = <<>>

C9_Witness ==
    /\ last.op = "prune"
    /\ last.raised = "ValueError"
    /\ last.io = <<>>
    /\ \E st \in Locations : blobs[st].present

\* C10: right after a successful fit without model_dir, a construction in the
\* same environment starts fitted, with a model equal as a mapping to the one
\* the fit built.
C10_RoundTrip ==
    (FitSucceeded /\ last.model_dir = "") =>
        LET r == ConstructResult(env, blobs, "none")
        IN /\ r.raised = "none"
           /\ r.is_fitted_model
           /\ AsMapping(r.model.data) = AsMapping(_prepare_model_data(last.texts))
           /\ AsMapping(r.model.data) = AsMapping(model.data)

C10_Witness ==
    /\ FitSucceeded
    /\ last.model_dir = ""
    /\ Len(last.texts) = MaxLen
    /\ last.texts[1] = "0"
    /\ last.texts[MaxLen] = "a"

\* the last operation was a construction that restored the persisted model
Restored == last.op = "construct" /\ last.raised = "none" /\ last.caught = "none"

\* C11 as stated, its last part: right after a fit that failed the fitted
\* flag is false.
C11_FlagFalseAfterFailedFit == FitFailed => ~is_fitted

\* C11 amended: the fitted flag is false initially and is true exactly when,
\* since the construction of the object, its load restored a model or a fit
\* built and persisted one; a failed load leaves it false, and a failed fit
\* leaves it as it was (true after an earlier success).
C11_FlagIffSucceeded ==
    /\ ~is_fitted_model
    /\ [][ is_fitted_model' =
              \/ Restored'
              \/ FitSucceeded'
              \/ (last'.op # "construct" /\ is_fitted_model) ]_vars

C11_Witness ==
    /\ FitFailed
    /\ last.caught = "AttributeError"
    /\ is_fitted

\* predict fails on every single text of QueryTexts
EveryTextFails(m) ==
    \A t \in QueryTexts : PredictResult(m, <<t>>).raised = "ValueError"

\* C12 as stated: whenever is_fitted is false, predict fails with the
\* key-not-found error for any input text.
C12_UnfittedPredictFails == (alive /\ ~is_fitted) => EveryTextFails(model)

\* C12 amended: an object that is unfitted after its construction fails
\* predict for any text, and goes on doing so while it is unfitted, until a
\* fit builds a model and fails to persist it: from then on the unfitted
\* object answers predict from that model.
C12_UnfittedFailsUntilBuilt ==
    [][ (alive' /\ ~is_fitted') =>
          IF last'.op = "construct" THEN EveryTextFails(model')
          ELSE IF last'.op = "fit" /\ last'.caught = "IOError"
          THEN model' = FittedMLModel(_prepare_model_data(last'.texts))
          ELSE EveryTextFails(model) => EveryTextFails(model') ]_vars

C12_Witness ==
    /\ last.op = "predict"
    /\ ~is_fitted
    /\ last.raised = "none"
    /\ last.out # <<>>

\* predict([s]) raises and returns nothing
FailsOn(m, s) ==
    LET r == PredictResult(m, <<s>>)
    IN r.raised = "ValueError" /\ r.out = <<>>

\* the last operation was a fit that built its model (persisted or not)
FitBuilt == last.op = "fit" /\ last.raised = "none" /\ last.caught # "AttributeError"

\* the decimal indices of the positions of a sequence of texts
IndexKeys(texts) == {Str(i) : i \in 0..(Len(texts) - 1)}

\* C13 as stated, for the texts that no fit is ever given (those of
\* QueryTexts outside TrainTexts): predict([s]) raises and returns nothing.
C13_NeverTrainedTextFails ==
    alive => \A s \in QueryTexts \ TrainTexts : FailsOn(model, s)

\* C13 amended: after a fit of texts T that built its model, predict([s])
\* raises and returns nothing for every s that is not the decimal index of a
\* position of T, whether or not s is one of the texts of T.
C13_NonIndexTextFails ==
    FitBuilt => \A s \in QueryTexts : s \notin IndexKeys(last.texts) => FailsOn(model, s)

C13_Witness ==
    /\ FitSucceeded
    /\ last.texts = <<"a">>
    /\ FailsOn(model, "a")
    /\ FailsOn(model, "1")
    /\ ~FailsOn(model, "0")

\* C14: prune_state on a storage root that holds no blob raises the failure
\* of the backend's remove to its caller and changes no blob.
C14_PruneAbsentRaises ==
    [][ ( /\ last'.op = "prune"
          /\ env.MLP_STORAGE_TYPE \in BackendNames
          /\ ~blobs[PrunedLocation'].present ) =>
            /\ last'.raised \in {"KeyError", "IOError"}
            /\ last'.io = <<Io("remove", PrunedLocation')>>
            /\ blobs' = blobs ]_vars

C14_Witness ==
    /\ last.op = "prune"
    /\ last.raised = "KeyError"
    /\ last.model_dir = ""
    /\ is_fitted

\* the words of an error message
MessageWords(msg) ==
    IF msg = NoKeyMessage
    THEN <<"No", "such", "id", "here,", "try", "0", "or", "1">>
    ELSE <<msg>>

Mentions(msg, t) == \E i \in 1..Len(MessageWords(msg)) : MessageWords(msg)[i] = t

\* the first text of a batch that is not a key of the model
FirstAbsent(m, texts) ==
    texts[CHOOSE i \in 1..Len(texts) :
             /\ ~has_data(m, texts[i])
             /\ \A j \in 1..(i - 1) : has_data(m, texts[j])]

HasAbsent(m, texts) == \E i \in 1..Len(texts) : ~has_data(m, texts[i])

AddressedLocation ==
    [kind |-> env.MLP_STORAGE_TYPE,
     root |-> IF last.model_dir # "" THEN last.model_dir ELSE env.MLP_STORAGE_DIR]

C17_ModelReplacedWholesale ==
    [][ /\ last'.op = "fit" =>
              /\ model' = IF FitBuilt' THEN FittedMLModel(_prepare_model_data(last'.texts))
                          ELSE model
              /\ FitBuilt' => DictKeys(model'.data) = IndexKeys(last'.texts)
        /\ last'.op \in {"predict", "prune", "setenv"} => model' = model
        /\ (last'.op = "construct" /\ alive') =>
              model' = IF Restored' THEN Decode(blobs[storage'].bytes)
                       ELSE FittedMLModel(EmptyDict) ]_vars

C17_Witness ==
    /\ last.op = "fit"
    /\ last.caught = "IOError"
    /\ Len(last.texts) = 1
    /\ Len(model.data) = 1
    /\ blobs[storage].present
    /\ Len(blobs[storage].bytes) = MaxLen + 2

\* C18: the keys of self.model are the decimal strings "0" .. "n-1" for the
\* number n of its items, in the initial model, after every fit and after
\* every restore; after a fit that built the model, key str(i) holds the i-th
\* text of that fit.
C18_KeysAreIndices ==
    /\ \E n \in 0..MaxLen :
          /\ Len(model.data) = n
          /\ DictKeys(model.data) = {Str(i) : i \in 0..(n - 1)}
          /\ Cardinality(DictKeys(model.data)) = n
    /\ FitBuilt =>
          /\ Len(model.data) = Len(last.texts)
          /\ \A i \in 0..(Len(last.texts) - 1) :
                AsMapping(model.data)[Str(i)] = last.texts[i + 1]

C18_Witness ==
    /\ Restored
    /\ Len(model.data) = MaxLen
    /\ AsMapping(model.data)["0"] # AsMapping(model.data)["1"]

\* C19: a construction whose load fails otherwise than on a missing blob
\* (the blob is there and does not decode, or the backend cannot be reached)
\* raises and leaves no object; the only failure it catches is the missing blob.
C19_LoadFailureFatal ==
    last.op = "construct" =>
        /\ alive <=> (last.raised = "none")
        /\ ( /\ env.MLP_STORAGE_TYPE \in BackendNames
             /\ blobs[_get_storage(env, "").storage].present
             /\ ~Decodable(blobs[_get_storage(env, "").storage].bytes) ) =>
               last.raised \in {"UnpicklingError", "IOError"}
        /\ last.caught # "none" =>
               /\ last.caught = "KeyError"
               /\ ~blobs[_get_storage(env, "").storage].present

C19_Witness ==
    /\ last.op = "construct"
    /\ last.raised = "UnpicklingError"
    /\ ~alive
    /\ blobs[_get_storage(env, "").storage].bytes # <<>>

\* C20: a prune_state, whether it removes the blob or raises, leaves
\* self.model, is_fitted_model and self.storage as they were, so is_fitted and
\* the result of predict on any text are the same after it.
C20_PruneKeepsObject ==
    [][ last'.op = "prune" =>
          /\ model' = model
          /\ is_fitted_model' = is_fitted_model
          /\ storage' = storage
          /\ alive' = alive
          /\ \A t \in QueryTexts : PredictResult(model', <<t>>) = PredictResult(model, <<t>>) ]_vars

C20_Witness ==
    /\ last.op = "prune"
    /\ last.raised = "none"
    /\ is_fitted
    /\ ~blobs[storage].present
    /\ PredictResult(model, <<"0">>).raised = "none"

====
